---- MODULE Spec2Model ----
(***************************************************************************)
(* Drift Bottle Core API (src/api_service.py): the three request handlers  *)
(* add_bottle, pick_random_bottle and get_active_bottle_counts running     *)
(* concurrently against the MongoDB collections "counters" and the bottle  *)
(* collection.  Every await on the store is one atomic step of a request;  *)
(* between two awaits of one request any other request may run.  A handler *)
(* has no suspension point between its last store call and its return (or  *)
(* between a raising store call and its except clause), so a request is    *)
(* answered, and complete, in the step of its last store call.             *)
(***************************************************************************)
EXTENDS Integers, Sequences, FiniteSets, TLC

\* Number of requests issued in one run (each request is served once).
NumReq == 3

\* Number of requests of a run in which the requests are sent one after another.
NumSeqReq == 5

\* Number of store operations that raise in one run.
MaxFaults == 1

\* Exhaustion runs: the number of documents stored beforehand is at most
\* MaxStored, and NumSessions requesters pick from them.
MaxStored == 2
NumSessions == 2

\* sender_id values of the clients (path parameter of pick, field of BottleIn).
SenderIds == {"u1", "u2", "u3"}

\* Request bodies of POST /bottles/ (BottleIn, lines 39-45).
BottleIns ==
    { [content |-> "hello", images |-> <<>>, sender |-> "Ann",
       sender_id |-> "u1", poke |-> FALSE],
      [content |-> "world", images |-> <<[type |-> "image", data |-> "http://x/1.png"]>>,
       sender |-> "Bob", sender_id |-> "u2", poke |-> TRUE] }

\* Values datetime.now().strftime(...) may produce (line 129).
Timestamps == {"2025-01-01 00:00:00"}

\* The name of the only sequence the handlers use (line 124).
BottleIdSequence == "bottle_id"

HTTP_200_OK == 200
HTTP_201_CREATED == 201
HTTP_404_NOT_FOUND == 404
HTTP_500_INTERNAL_SERVER_ERROR == 500

None == [none |-> TRUE]

VARIABLES
    counters_collection, \* db["counters"]: sequence name -> seq, absent when not yet created
    bottles_collection,  \* the stored bottle documents; the index of a document is its _id
    pc,                  \* per request: the await it is suspended at
    kind,                \* per request: "add", "pick" or "count" ("none" before it is issued)
    arg,                 \* per request: bottle_in (add) or sender_id (pick)
    new_id,              \* add_bottle's local new_id (0 while it is not assigned)
    bottle_doc,          \* pick_random_bottle's local bottle_doc (None until sampled)
    exc,                 \* the exception the handler's try block raised ("none" if none)
    resp,                \* the HTTP response of the request (None until produced)
    pickedAtIssue,       \* history: the _ids whose picked was true when a pick was issued
    insertedBy,          \* history: for each stored document, the request that inserted it
    doneAtAlloc,         \* history: the adds already answered 201 when new_id was allocated
    readView,            \* history: the moment of a count request's read (see CountOk)
    config,              \* the settings present in the environment at process start
    phase,               \* "import", "startup", "serving" or "failed"
    seqLog,              \* history: last value get_next_sequence_value returned (0: none),
                         \* and the increments applied since by calls that raised
    tally                \* history: per client session, the picks it has been answered

vars == <<counters_collection, bottles_collection, pc, kind, arg, new_id, bottle_doc,
          exc, resp, pickedAtIssue, insertedBy, doneAtAlloc, readView,
          config, phase, seqLog, tally>>

\* The requests of a run: the domain of the per-request variables.
Requests == DOMAIN pc

----------------------------------------------------------------------------
\* The store operations the handlers call.

Ids(coll) == 1..Len(coll)

\* Mutant: the update sets seq instead of incrementing it.
IncSeqSet(counters, sequence_name) ==
    (sequence_name :> 1) @@ counters

\* counters.find_one_and_update({'_id': name}, {'$inc': {'seq': 1}}, upsert=True):
\* the collection after the update.
IncSeq(counters, sequence_name) ==
    IF sequence_name \in DOMAIN counters
    THEN [counters EXCEPT ![sequence_name] = @ + 1]
    ELSE (sequence_name :> 1) @@ counters

\* Mutant: return_document=BEFORE, the value read is the one before the update.
get_next_sequence_value_before(counters, sequence_name) ==
    IF sequence_name \in DOMAIN counters THEN counters[sequence_name] ELSE 0

\* get_next_sequence_value: return_document=AFTER, so the value read is the
\* one the update wrote.
get_next_sequence_value(counters, sequence_name) ==
    IncSeq(counters, sequence_name)[sequence_name]

\* bottle_data after bottle_data.update({...}) (lines 121-130).
NewBottleData(bottle_in, id, ts) ==
    [bottle_id |-> id,
     content   |-> bottle_in.content,
     images    |-> bottle_in.images,
     sender    |-> bottle_in.sender,
     sender_id |-> bottle_in.sender_id,
     poke      |-> bottle_in.poke,
     picked    |-> FALSE,
     timestamp |-> ts]

\* Mutant: the response reports the document as the update left it.
from_mongo_dict_marked(data) ==
    [bottle_id |-> data.bottle_id,
     content   |-> data.content,
     images    |-> data.images,
     sender    |-> data.sender,
     sender_id |-> data.sender_id,
     picked    |-> TRUE,
     timestamp |-> data.timestamp,
     poke      |-> data.poke]

\* BottleOut.from_mongo_dict: the model keeps the declared fields and drops
\* the storage identity _id.
from_mongo_dict(data) ==
    [bottle_id |-> data.bottle_id,
     content   |-> data.content,
     images    |-> data.images,
     sender    |-> data.sender,
     sender_id |-> data.sender_id,
     picked    |-> data.picked,
     timestamp |-> data.timestamp,
     poke      |-> data.poke]

\* Mutant: the $match stage without the sender_id condition.
MatchAnySender(coll, sender_id) ==
    {i \in Ids(coll) : coll[i].picked = FALSE}

\* Mutant: the $match stage without the picked condition.
MatchAnyPicked(coll, sender_id) ==
    {i \in Ids(coll) : coll[i].sender_id # sender_id}

\* {"$match": {"picked": False, "sender_id": {"$ne": sender_id}}}: the _ids matched.
Match(coll, sender_id) ==
    {i \in Ids(coll) : coll[i].picked = FALSE /\ coll[i].sender_id # sender_id}

\* Mutant: update_many with an empty filter, every document is marked.
SetPickedAll(coll, id) ==
    [i \in Ids(coll) |-> [coll[i] EXCEPT !.picked = TRUE]]

\* Mutant: the update matches no document.
SetPickedNoop(coll, id) ==
    coll

\* Mutant: the update flips the flag instead of setting it.
SetPickedFlip(coll, id) ==
    IF id \in Ids(coll) THEN [coll EXCEPT ![id].picked = ~@] ELSE coll

\* update_one({"_id": id}, {"$set": {"picked": True}}): the collection after it.
SetPicked(coll, id) ==
    IF id \in Ids(coll) THEN [coll EXCEPT ![id].picked = TRUE] ELSE coll

\* Mutant: count_documents without the filter.
RECURSIVE CountAll(_)
CountAll(coll) ==
    IF coll = <<>> THEN 0 ELSE 1 + CountAll(Tail(coll))

\* count_documents({"picked": False}).
RECURSIVE CountUnpicked(_)
CountUnpicked(coll) ==
    IF coll = <<>> THEN 0
    ELSE (IF Head(coll).picked = FALSE THEN 1 ELSE 0) + CountUnpicked(Tail(coll))

\* Mutant: every exception of pick_random_bottle is answered as "no bottle".
PickErrorStatusNotFound(e) == HTTP_404_NOT_FOUND

\* Mutant: pick_random_bottle without its "except HTTPException: raise" clause.
PickErrorStatusCatchAll(e) == HTTP_500_INTERNAL_SERVER_ERROR

\* The except clauses of pick_random_bottle (lines 179-186): an HTTPException
\* is re-raised as it is, anything else becomes a 500.
PickErrorStatus(e) ==
    IF e = "HTTPException404" THEN HTTP_404_NOT_FOUND ELSE HTTP_500_INTERNAL_SERVER_ERROR

\* Mutant: the except clause of add_bottle answers as if the bottle was created.
AddErrorStatusCreated(e) == HTTP_201_CREATED

\* The except clause of add_bottle (lines 136-141).
AddErrorStatus(e) == HTTP_500_INTERNAL_SERVER_ERROR

\* The except clause of get_active_bottle_counts (lines 201-206).
CountErrorStatus(e) == HTTP_500_INTERNAL_SERVER_ERROR

Response(code, body) == [status |-> code, body |-> body]

----------------------------------------------------------------------------
\* The three settings read at lines 14-16.
Settings == {"MONGO_URI", "DATABASE_NAME", "COLLECTION_NAME"}

\* An empty database: no counter document, no bottle document.
EmptyStore ==
    /\ counters_collection = <<>>
    /\ bottles_collection = <<>>
    /\ insertedBy = <<>>
    /\ seqLog = [last |-> 0, lost |-> 0]

\* No request of the set R has arrived yet.
NoRequestYet(R) ==
    /\ pc = [r \in R |-> "idle"]
    /\ kind = [r \in R |-> "none"]
    /\ arg = [r \in R |-> None]
    /\ new_id = [r \in R |-> 0]
    /\ bottle_doc = [r \in R |-> None]
    /\ exc = [r \in R |-> "none"]
    /\ resp = [r \in R |-> None]
    /\ pickedAtIssue = [r \in R |-> None]
    /\ doneAtAlloc = [r \in R |-> None]
    /\ readView = [r \in R |-> None]
    /\ tally = [r \in R |-> None]

\* The process starts with any subset of the settings present.
Init ==
    /\ EmptyStore
    /\ NoRequestYet(1..NumReq)
    /\ config \in SUBSET Settings
    /\ phase = "import"

requestVars == <<counters_collection, bottles_collection, pc, kind, arg, new_id,
                 bottle_doc, exc, resp, pickedAtIssue, insertedBy, doneAtAlloc, readView,
                 seqLog, tally>>

\* Lines 18-21: the module raises ValueError unless MONGO_URI and DATABASE_NAME are set.
ModuleLevelChecks(cfg) == "MONGO_URI" \in cfg /\ "DATABASE_NAME" \in cfg

\* Lines 73-75: client[DATABASE_NAME] and db[COLLECTION_NAME] return a handle
\* for a name that is a string and raise TypeError for None.
HandlesCreated(cfg) == "DATABASE_NAME" \in cfg /\ "COLLECTION_NAME" \in cfg

\* Mutant: the except clause of startup_db_client logs the error and goes on.
StartupResultSwallow(raised) == "serving"

\* Lines 78-83: an exception in the startup handler is raised again, so the
\* application's startup fails and no request is served.
StartupResult(raised) == IF raised THEN "failed" ELSE "serving"

\* The module body runs (import of api_service).
ImportModule ==
    /\ phase = "import"
    /\ phase' = IF ModuleLevelChecks(config) THEN "startup" ELSE "failed"
    /\ UNCHANGED <<config, requestVars>>

\* The startup event handler: the handles are created and the server is pinged.
startup_db_client ==
    /\ phase = "startup"
    /\ \E ping \in BOOLEAN :
         phase' = StartupResult(~HandlesCreated(config) \/ ~ping)
    /\ UNCHANGED <<config, requestVars>>

PickedIds == {i \in Ids(bottles_collection) : bottles_collection[i].picked}

\* A client sends a request; requests are numbered in the order they arrive.
\* Requests are served only once the startup has completed.
Issue(r, k, a, first) ==
    /\ phase = "serving"
    /\ pc[r] = "idle"
    /\ \A q \in Requests : q < r => pc[q] # "idle"
    /\ pc' = [pc EXCEPT ![r] = first]
    /\ kind' = [kind EXCEPT ![r] = k]
    /\ arg' = [arg EXCEPT ![r] = a]
    /\ pickedAtIssue' = [pickedAtIssue EXCEPT ![r] = IF k = "pick" THEN PickedIds ELSE None]
    /\ UNCHANGED <<counters_collection, bottles_collection, new_id, bottle_doc, exc,
                   resp, insertedBy, doneAtAlloc, readView,
                   config, phase, tally, seqLog>>

IssueAdd(r) == \E b \in BottleIns : Issue(r, "add", b, "alloc")
IssuePick(r) == \E s \in SenderIds : Issue(r, "pick", s, "sample")
IssueCount(r) == Issue(r, "count", None, "count")

\* A store call of request r raises: the handler's except clause turns the
\* exception into the response, and the request is over.
Fail(r, code) ==
    /\ Cardinality({q \in Requests : exc[q] = "StoreError"}) < MaxFaults
    /\ exc' = [exc EXCEPT ![r] = "StoreError"]
    /\ resp' = [resp EXCEPT ![r] = Response(code, None)]
    /\ pc' = [pc EXCEPT ![r] = "done"]

\* add_bottle, line 124: await get_next_sequence_value("bottle_id").
AllocOk(r) ==
    /\ pc[r] = "alloc"
    /\ counters_collection' = IncSeq(counters_collection, BottleIdSequence)
    /\ new_id' = [new_id EXCEPT ![r] =
                    get_next_sequence_value(counters_collection, BottleIdSequence)]
    /\ pc' = [pc EXCEPT ![r] = "insert"]
    /\ seqLog' = [last |-> get_next_sequence_value(counters_collection, BottleIdSequence),
                  lost |-> 0]
    /\ doneAtAlloc' = [doneAtAlloc EXCEPT ![r] =
                         {q \in Requests : /\ kind[q] = "add"
                                           /\ pc[q] = "done"
                                           /\ resp[q].status = HTTP_201_CREATED}]
    /\ UNCHANGED <<bottles_collection, kind, arg, bottle_doc, exc, resp, pickedAtIssue,
                   insertedBy, readView,
                   config, phase, tally>>

\* The allocation raises: the store is unreachable (nothing written) or the
\* reply is lost after the increment was applied.
AllocFail(r) ==
    /\ pc[r] = "alloc"
    /\ \E committed \in BOOLEAN :
         /\ counters_collection' = IF committed
                                   THEN IncSeq(counters_collection, BottleIdSequence)
                                   ELSE counters_collection
         /\ seqLog' = IF committed THEN [seqLog EXCEPT !.lost = @ + 1] ELSE seqLog
    /\ Fail(r, AddErrorStatus("StoreError"))
    /\ UNCHANGED <<bottles_collection, kind, arg, new_id, bottle_doc, pickedAtIssue,
                   insertedBy, doneAtAlloc, readView,
                   config, phase, tally>>

\* add_bottle, lines 126-135: build bottle_data, await insert_one, build the response.
InsertOk(r) ==
    /\ pc[r] = "insert"
    /\ \E ts \in Timestamps :
         LET bottle_data == NewBottleData(arg[r], new_id[r], ts) IN
           /\ bottles_collection' = Append(bottles_collection, bottle_data)
           /\ resp' = [resp EXCEPT ![r] =
                         Response(HTTP_201_CREATED, from_mongo_dict(bottle_data))]
    /\ insertedBy' = Append(insertedBy, r)
    /\ pc' = [pc EXCEPT ![r] = "done"]
    /\ UNCHANGED <<counters_collection, kind, arg, new_id, bottle_doc, exc, pickedAtIssue,
                   doneAtAlloc, readView,
                   config, phase, tally, seqLog>>

InsertFail(r) ==
    /\ pc[r] = "insert"
    /\ \E committed \in BOOLEAN, ts \in Timestamps :
         IF committed
         THEN /\ bottles_collection' =
                   Append(bottles_collection, NewBottleData(arg[r], new_id[r], ts))
              /\ insertedBy' = Append(insertedBy, r)
         ELSE UNCHANGED <<bottles_collection, insertedBy>>
    /\ Fail(r, AddErrorStatus("StoreError"))
    /\ UNCHANGED <<counters_collection, kind, arg, new_id, bottle_doc, pickedAtIssue,
                   doneAtAlloc, readView,
                   config, phase, tally, seqLog>>

\* pick_random_bottle, lines 161-168: await aggregate(pipeline).to_list(1).
SampleOk(r) ==
    /\ pc[r] = "sample"
    /\ LET bottles == Match(bottles_collection, arg[r]) IN
         IF bottles = {}
         THEN /\ exc' = [exc EXCEPT ![r] = "HTTPException404"]
              /\ resp' = [resp EXCEPT ![r] =
                            Response(PickErrorStatus("HTTPException404"), None)]
              /\ pc' = [pc EXCEPT ![r] = "done"]
              /\ UNCHANGED bottle_doc
         ELSE /\ \E i \in bottles :
                   bottle_doc' = [bottle_doc EXCEPT ![r] =
                                    [_id |-> i, doc |-> bottles_collection[i]]]
              /\ pc' = [pc EXCEPT ![r] = "mark"]
              /\ UNCHANGED <<exc, resp>>
    /\ UNCHANGED <<counters_collection, bottles_collection, kind, arg, new_id,
                   pickedAtIssue, insertedBy, doneAtAlloc, readView,
                   config, phase, tally, seqLog>>

SampleFail(r) ==
    /\ pc[r] = "sample"
    /\ Fail(r, PickErrorStatus("StoreError"))
    /\ UNCHANGED <<counters_collection, bottles_collection, kind, arg, new_id, bottle_doc,
                   pickedAtIssue, insertedBy, doneAtAlloc, readView,
                   config, phase, tally, seqLog>>

\* pick_random_bottle, lines 172-178: await update_one by _id, build the response.
MarkOk(r) ==
    /\ pc[r] = "mark"
    /\ bottles_collection' = SetPicked(bottles_collection, bottle_doc[r]._id)
    /\ resp' = [resp EXCEPT ![r] = Response(HTTP_200_OK, from_mongo_dict(bottle_doc[r].doc))]
    /\ pc' = [pc EXCEPT ![r] = "done"]
    /\ UNCHANGED <<counters_collection, kind, arg, new_id, bottle_doc, exc,
                   pickedAtIssue, insertedBy, doneAtAlloc, readView,
                   config, phase, tally, seqLog>>

MarkFail(r) ==
    /\ pc[r] = "mark"
    /\ \E committed \in BOOLEAN :
         bottles_collection' = IF committed
                               THEN SetPicked(bottles_collection, bottle_doc[r]._id)
                               ELSE bottles_collection
    /\ Fail(r, PickErrorStatus("StoreError"))
    /\ UNCHANGED <<counters_collection, kind, arg, new_id, bottle_doc, pickedAtIssue,
                   insertedBy, doneAtAlloc, readView,
                   config, phase, tally, seqLog>>

\* get_active_bottle_counts, lines 198-200.
CountOk(r) ==
    /\ pc[r] = "count"
    /\ resp' = [resp EXCEPT ![r] =
                  Response(HTTP_200_OK,
                           [total_active_bottles |-> CountUnpicked(bottles_collection)])]
    /\ readView' = [readView EXCEPT ![r] =
                      [issued |-> Cardinality({q \in Requests : pc[q] # "idle"}),
                       adding |-> \E q \in Requests : pc[q] \in {"alloc", "insert"},
                       picked |-> PickedIds]]
    /\ pc' = [pc EXCEPT ![r] = "done"]
    /\ UNCHANGED <<counters_collection, bottles_collection, kind, arg, new_id, bottle_doc,
                   exc, pickedAtIssue, insertedBy, doneAtAlloc,
                   config, phase, tally, seqLog>>

CountFail(r) ==
    /\ pc[r] = "count"
    /\ Fail(r, CountErrorStatus("StoreError"))
    /\ UNCHANGED <<counters_collection, bottles_collection, kind, arg, new_id, bottle_doc,
                   pickedAtIssue, insertedBy, doneAtAlloc, readView,
                   config, phase, tally, seqLog>>

Next ==
    \/ ImportModule
    \/ startup_db_client
    \/ \E r \in Requests : IssueAdd(r)
    \/ \E r \in Requests : IssuePick(r)
    \/ \E r \in Requests : IssueCount(r)
    \/ \E r \in Requests : AllocOk(r)
    \/ \E r \in Requests : AllocFail(r)
    \/ \E r \in Requests : InsertOk(r)
    \/ \E r \in Requests : InsertFail(r)
    \/ \E r \in Requests : SampleOk(r)
    \/ \E r \in Requests : SampleFail(r)
    \/ \E r \in Requests : MarkOk(r)
    \/ \E r \in Requests : MarkFail(r)
    \/ \E r \in Requests : CountOk(r)
    \/ \E r \in Requests : CountFail(r)

Spec == Init /\ [][Next]_vars

----------------------------------------------------------------------------
\* Sequential use: the server is up, the database is empty, every request is
\* sent after the previous one was answered, and no store call raises.

InitSeq ==
    /\ EmptyStore
    /\ NoRequestYet(1..NumSeqReq)
    /\ config = Settings
    /\ phase = "serving"

NoneInFlight == \A q \in Requests : pc[q] \in {"idle", "done"}

NextSeq ==
    \/ \E r \in Requests : NoneInFlight /\ IssueAdd(r)
    \/ \E r \in Requests : NoneInFlight /\ IssuePick(r)
    \/ \E r \in Requests : NoneInFlight /\ IssueCount(r)
    \/ \E r \in Requests : AllocOk(r)
    \/ \E r \in Requests : InsertOk(r)
    \/ \E r \in Requests : SampleOk(r)
    \/ \E r \in Requests : MarkOk(r)
    \/ \E r \in Requests : CountOk(r)

SpecSeq == InitSeq /\ [][NextSeq]_vars

----------------------------------------------------------------------------
\* Exhaustion: the server is up over a store that earlier creations and picks
\* have filled, no creation request arrives any more, and no store call
\* raises.  Each of the NumSessions requesters sends pick requests one after
\* the other, the next one once the previous one was answered; pc[r], arg[r],
\* bottle_doc[r] and resp[r] describe the current request of requester r.

\* The documents insert_one can have stored under bottle_id i, with the picked
\* flag as a later update_one may have left it.
StoredDocs(i) ==
    {[NewBottleData(b, i, ts) EXCEPT !.picked = p] :
        b \in BottleIns, ts \in Timestamps, p \in BOOLEAN}

\* The collections that n creations answered 201 and some picks leave behind.
StoredCollections(n) ==
    {coll \in [1..n -> UNION {StoredDocs(i) : i \in 1..n}] :
        \A i \in 1..n : coll[i].bottle_id = i}

InitExhaust ==
    /\ \E n \in 0..MaxStored :
         /\ bottles_collection \in StoredCollections(n)
         /\ counters_collection =
                IF n = 0 THEN <<>> ELSE (BottleIdSequence :> n)
         /\ insertedBy = [i \in 1..n |-> 0]
         /\ seqLog = [last |-> n, lost |-> 0]
    /\ NoRequestYet(1..NumSessions)
    /\ config = Settings
    /\ phase = "serving"

\* Requester r sends its first pick request, under a sender_id no other
\* requester uses.
FirstPick(r) ==
    /\ pc[r] = "idle"
    /\ pc' = [pc EXCEPT ![r] = "sample"]
    /\ kind' = [kind EXCEPT ![r] = "pick"]
    /\ \E a \in SenderIds :
         /\ a \notin {arg[q] : q \in {p \in Requests \ {r} : kind[p] = "pick"}}
         /\ arg' = [arg EXCEPT ![r] = a]
         /\ tally' = [tally EXCEPT ![r] =
                        [first |-> Cardinality(Match(bottles_collection, a)),
                         ok    |-> 0]]
    /\ UNCHANGED <<counters_collection, bottles_collection, new_id, bottle_doc, exc,
                   resp, pickedAtIssue, insertedBy, doneAtAlloc, readView,
                   config, phase, seqLog>>

\* Requester r has its answer and sends its next pick request.
NextPick(r) ==
    /\ pc[r] = "done"
    /\ tally[r].ok <= Len(bottles_collection)
    /\ tally' = [tally EXCEPT ![r].ok =
                    IF resp[r].status = HTTP_200_OK THEN @ + 1 ELSE @]
    /\ pc' = [pc EXCEPT ![r] = "sample"]
    /\ bottle_doc' = [bottle_doc EXCEPT ![r] = None]
    /\ exc' = [exc EXCEPT ![r] = "none"]
    /\ resp' = [resp EXCEPT ![r] = None]
    /\ UNCHANGED <<counters_collection, bottles_collection, kind, arg, new_id,
                   pickedAtIssue, insertedBy, doneAtAlloc, readView,
                   config, phase, seqLog>>

NextExhaust ==
    \/ \E r \in Requests : FirstPick(r)
    \/ \E r \in Requests : NextPick(r)
    \/ \E r \in Requests : SampleOk(r)
    \/ \E r \in Requests : MarkOk(r)

\* Once requester 1 has started, it keeps sending and the server answers
\* every request of it; the other requesters may stop at any point.
\* Each of these steps changes pc.
FairExhaust ==
    /\ WF_pc(NextPick(1))
    /\ WF_pc(SampleOk(1))
    /\ WF_pc(MarkOk(1))

SpecExhaust == InitExhaust /\ [][NextExhaust]_vars /\ FairExhaust

----------------------------------------------------------------------------
\* What the clients have seen.

Adds == {r \in Requests : kind[r] = "add"}
Picks == {r \in Requests : kind[r] = "pick"}
Counts == {r \in Requests : kind[r] = "count"}

\* The request has been answered with this status.
Answered(r, code) == pc[r] = "done" /\ resp[r].status = code

Inserters == {insertedBy[i] : i \in Ids(insertedBy)}

----------------------------------------------------------------------------
\* C1: no two pick requests of distinct requesters (different sender_id path
\* parameters) are both answered 200 with the same bottle record.
ClaimExclusivity ==
    \A r1 \in Picks, r2 \in Picks :
        (/\ r1 # r2
         /\ arg[r1] # arg[r2]
         /\ Answered(r1, HTTP_200_OK)
         /\ Answered(r2, HTTP_200_OK))
        => resp[r1].body.bottle_id # resp[r2].body.bottle_id

\* C2: in every reachable state no two stored bottle documents share a
\* bottle_id, and no two 201 responses carry the same bottle_id.
IdUniqueness ==
    /\ \A i \in Ids(bottles_collection), j \in Ids(bottles_collection) :
           i # j => bottles_collection[i].bottle_id # bottles_collection[j].bottle_id
    /\ \A r1 \in Adds, r2 \in Adds :
           (r1 # r2 /\ Answered(r1, HTTP_201_CREATED) /\ Answered(r2, HTTP_201_CREATED))
           => resp[r1].body.bottle_id # resp[r2].body.bottle_id

\* C2 witness: two creation requests were answered 201 and both documents are stored.
IdUniquenessWitness ==
    /\ Len(bottles_collection) >= 2
    /\ \E r1 \in Adds, r2 \in Adds :
           r1 # r2 /\ Answered(r1, HTTP_201_CREATED) /\ Answered(r2, HTTP_201_CREATED)

\* Every unpicked stored document is authored by sender_id (possibly there is none).
OnlyOwnUnpicked(coll, sender_id) ==
    \A i \in Ids(coll) : coll[i].picked = FALSE => coll[i].sender_id = sender_id

\* The step in which pick request r gets the result of its aggregate call.
Sampled(r) == pc[r] = "sample" /\ pc'[r] # "sample" /\ exc'[r] # "StoreError"

\* C3: a pick with path parameter X is never answered with a document whose
\* sender_id is X; when its sample finds only unpicked documents authored by X,
\* it is answered 404 and no document changes.
SelfExclusion ==
    /\ [](\A r \in Picks :
            resp[r] # None /\ resp[r].status = HTTP_200_OK
            => resp[r].body.sender_id # arg[r])
    /\ [][\A r \in Requests :
            (Sampled(r) /\ OnlyOwnUnpicked(bottles_collection, arg[r]))
            => /\ pc'[r] = "done"
               /\ resp'[r] = Response(HTTP_404_NOT_FOUND, None)
               /\ bottle_doc'[r] = None
               /\ bottles_collection' = bottles_collection]_vars

\* C3 witness: a pick by X was answered 404 while an unpicked document authored
\* by X is stored and every unpicked document is X's.
SelfExclusionWitness ==
    \E r \in Picks :
        /\ Answered(r, HTTP_404_NOT_FOUND)
        /\ \E i \in Ids(bottles_collection) :
               bottles_collection[i].picked = FALSE /\ bottles_collection[i].sender_id = arg[r]
        /\ OnlyOwnUnpicked(bottles_collection, arg[r])

\* C4: a pick request is never answered with a document whose picked flag was
\* already true in the store when the request was issued.
IdempotentClaimState ==
    \A r \in Picks :
        Answered(r, HTTP_200_OK)
        => /\ bottle_doc[r]._id \notin pickedAtIssue[r]
           /\ \A i \in pickedAtIssue[r] :
                  bottles_collection[i].bottle_id # resp[r].body.bottle_id

\* C4 witness: a pick issued after some document was picked has been answered.
IdempotentClaimStateWitness ==
    \E r \in Picks : pc[r] = "done" /\ exc[r] # "StoreError" /\ pickedAtIssue[r] # {}

\* C5: a document is inserted with picked false, no document is removed, and
\* in every step the picked flag of a stored document either keeps its value
\* or goes from false to true.
ClaimedMonotonicity ==
    [][/\ \A i \in Ids(bottles_collection) :
            /\ i \in Ids(bottles_collection')
            /\ bottles_collection[i].picked => bottles_collection'[i].picked
       /\ \A i \in Ids(bottles_collection') \ Ids(bottles_collection) :
            bottles_collection'[i].picked = FALSE]_vars

\* C5 witness: a document's flag is true after two picks marked that same document.
ClaimedMonotonicityWitness ==
    /\ \E i \in Ids(bottles_collection) : bottles_collection[i].picked
    /\ \E r1 \in Picks, r2 \in Picks :
           /\ r1 # r2
           /\ Answered(r1, HTTP_200_OK) /\ Answered(r2, HTTP_200_OK)
           /\ bottle_doc[r1]._id = bottle_doc[r2]._id

\* C6: a pick whose $match set is empty when its aggregate runs is answered 404
\* with no record (never 200, never 500), the answer stays what it is, and the
\* step changes no stored document and no counter.
EmptySetBehaviour ==
    [][\A r \in Requests :
         /\ (Sampled(r) /\ Match(bottles_collection, arg[r]) = {})
            => /\ pc'[r] = "done"
               /\ resp'[r] = Response(HTTP_404_NOT_FOUND, None)
               /\ bottles_collection' = bottles_collection
               /\ counters_collection' = counters_collection
         /\ (resp[r] # None /\ resp[r].status = HTTP_404_NOT_FOUND)
            => resp'[r] = resp[r]]_vars

\* C6 witness: a pick was answered 404 and its $match set is empty.
EmptySetBehaviourWitness ==
    \E r \in Picks :
        /\ Answered(r, HTTP_404_NOT_FOUND)
        /\ exc[r] = "HTTPException404"
        /\ Match(bottles_collection, arg[r]) = {}

\* C7 as stated: when a creation request is answered 201, every creation
\* request answered 201 before it carries a smaller bottle_id.
CreationOrderByCompletion ==
    [][\A r2 \in Requests :
         (pc[r2] = "insert" /\ pc'[r2] = "done" /\ resp'[r2].status = HTTP_201_CREATED)
         => \A r1 \in Adds :
                Answered(r1, HTTP_201_CREATED)
                => resp[r1].body.bottle_id < resp'[r2].body.bottle_id]_vars

\* C7 amended: a creation request answered 201 carries a larger bottle_id than
\* every creation request that was answered 201 before its id was allocated.
CreationOrderByAllocation ==
    \A r2 \in Adds :
        Answered(r2, HTTP_201_CREATED)
        => \A r1 \in doneAtAlloc[r2] :
               resp[r1].body.bottle_id < resp[r2].body.bottle_id

\* C7 witness: a creation request was answered 201 whose id was allocated
\* after another creation request had been answered 201.
CreationOrderByAllocationWitness ==
    \E r2 \in Adds : Answered(r2, HTTP_201_CREATED) /\ doneAtAlloc[r2] # {}

\* The creation requests issued after the read of count request c1 and up to
\* the read of count request c2.
AddsBetween(c1, c2) ==
    {r \in Adds : readView[c1].issued < r /\ r <= readView[c2].issued}

\* Between the reads of c1 and c2 no picked flag changed, and the creation
\* requests that ran are exactly those of AddsBetween, all answered 201 (none
\* was in flight at either read).
OnlyAddsBetween(c1, c2) ==
    /\ readView[c1].issued <= readView[c2].issued
    /\ ~readView[c1].adding
    /\ ~readView[c2].adding
    /\ readView[c1].picked = readView[c2].picked
    /\ \A r \in AddsBetween(c1, c2) : resp[r].status = HTTP_201_CREATED

\* C8: the count returned is the number of stored documents with picked false
\* at the read, whatever their sender; and when only K successful creations and
\* no pick ran between two count reads, the second count is the first plus K.
CountConsistency ==
    /\ [][\A c \in Requests :
            (pc[c] = "count" /\ pc'[c] = "done" /\ exc'[c] # "StoreError")
            => resp'[c] = Response(HTTP_200_OK,
                 [total_active_bottles |->
                    Cardinality({i \in Ids(bottles_collection) :
                                   bottles_collection[i].picked = FALSE})])]_vars
    /\ [](\A c1 \in Counts, c2 \in Counts :
            (/\ Answered(c1, HTTP_200_OK)
             /\ Answered(c2, HTTP_200_OK)
             /\ OnlyAddsBetween(c1, c2))
            => resp[c2].body.total_active_bottles =
                 resp[c1].body.total_active_bottles + Cardinality(AddsBetween(c1, c2)))

\* C8 witness: two counts were answered with at least one successful creation,
\* and nothing else, between their reads.
CountConsistencyWitness ==
    \E c1 \in Counts, c2 \in Counts :
        /\ Answered(c1, HTTP_200_OK)
        /\ Answered(c2, HTTP_200_OK)
        /\ OnlyAddsBetween(c1, c2)
        /\ AddsBetween(c1, c2) # {}
        /\ resp[c2].body.total_active_bottles > resp[c1].body.total_active_bottles

\* The id allocation of creation request r raised.
AllocFailed(r) == kind[r] = "add" /\ exc[r] = "StoreError" /\ new_id[r] = 0

\* The id allocation of creation request r succeeded and its insert raised.
InsertFailed(r) == kind[r] = "add" /\ exc[r] = "StoreError" /\ new_id[r] # 0

\* C9: a creation request whose id allocation raised is answered 500, has
\* inserted no document and has no id assigned.
AllocatorFailureAllOrNothing ==
    \A r \in Requests :
        AllocFailed(r)
        => /\ Answered(r, HTTP_500_INTERNAL_SERVER_ERROR)
           /\ resp[r].body = None
           /\ r \notin Inserters

\* C9 witness: the allocation of a creation request raised while another
\* creation request stored its document.
AllocatorFailureWitness ==
    /\ \E r \in Requests : AllocFailed(r)
    /\ Len(bottles_collection) >= 1

\* C10: when the insert of a creation request raised after its id was
\* allocated, the request is answered 500, the counter is at least that id, and
\* no document inserted by another request carries that id.
SkippedIdsNeverReused ==
    \A r \in Requests :
        InsertFailed(r)
        => /\ Answered(r, HTTP_500_INTERNAL_SERVER_ERROR)
           /\ BottleIdSequence \in DOMAIN counters_collection
           /\ counters_collection[BottleIdSequence] >= new_id[r]
           /\ \A i \in Ids(bottles_collection) :
                  bottles_collection[i].bottle_id = new_id[r] => insertedBy[i] = r
           /\ \A q \in Adds : q # r => new_id[q] # new_id[r]

\* C10 witness: an insert raised without storing its document, and a creation
\* request that allocated later was answered 201.
SkippedIdsNeverReusedWitness ==
    \E r \in Requests, q \in Adds :
        /\ InsertFailed(r)
        /\ r \notin Inserters
        /\ Answered(q, HTTP_201_CREATED)
        /\ resp[q].body.bottle_id > new_id[r]

\* C11: when one of MONGO_URI, DATABASE_NAME, COLLECTION_NAME is absent at
\* process start, the process never reaches the serving state and no create,
\* pick or count request is ever handled.
RequiredConfiguration ==
    config # Settings
    => /\ phase # "serving"
       /\ \A r \in Requests : pc[r] = "idle"

\* C11 witness: the startup has failed with only COLLECTION_NAME absent (the
\* setting the module-level checks do not look at).
RequiredConfigurationWitness ==
    /\ config = Settings \ {"COLLECTION_NAME"}
    /\ phase = "failed"

\* The first n requests of the example: create A by u1, create B by u2, pick
\* by u1, pick by u1, count; all of them answered.
IsAddBy(r, s) == kind[r] = "add" /\ arg[r].sender_id = s
IsPickBy(r, s) == kind[r] = "pick" /\ arg[r] = s
ExampleDone(n) ==
    /\ \A r \in 1..n : pc[r] = "done"
    /\ IsAddBy(1, "u1")
    /\ IsAddBy(2, "u2")
    /\ n >= 3 => IsPickBy(3, "u1")
    /\ n >= 4 => IsPickBy(4, "u1")
    /\ n >= 5 => kind[5] = "count"

\* C12: in the example run on an empty store the first pick by u1 returns B,
\* the second pick by u1 is answered 404, and the count afterwards is 1.
ExampleScenario ==
    /\ ExampleDone(3)
       => /\ resp[3].status = HTTP_200_OK
          /\ resp[3].body = [resp[2].body EXCEPT !.picked = FALSE]
          /\ resp[3].body.sender_id = "u2"
    /\ ExampleDone(4) => resp[4] = Response(HTTP_404_NOT_FOUND, None)
    /\ ExampleDone(5)
       => resp[5] = Response(HTTP_200_OK, [total_active_bottles |-> 1])

\* C12 witness: the five requests of the example have been answered.
ExampleScenarioWitness == ExampleDone(5)

\* The step in which get_next_sequence_value returns to creation request r.
Allocated(r) == pc[r] = "alloc" /\ pc'[r] = "insert"

\* The counter document is never deleted and its value never decreases.
CounterKept ==
    BottleIdSequence \in DOMAIN counters_collection
    => /\ BottleIdSequence \in DOMAIN counters_collection'
       /\ counters_collection'[BottleIdSequence] >= counters_collection[BottleIdSequence]

\* C13 as stated: the first successful call on a sequence without a counter
\* document creates it and returns 1, every later successful call returns the
\* previously returned value plus 1, and the counter is kept.
SequenceArithmetic ==
    [][/\ \A r \in Requests :
            Allocated(r)
            => /\ BottleIdSequence \notin DOMAIN counters_collection
                  => /\ new_id'[r] = 1
                     /\ BottleIdSequence \in DOMAIN counters_collection'
               /\ seqLog.last # 0 => new_id'[r] = seqLog.last + 1
       /\ CounterKept]_vars

\* C13 amended: a successful call returns the stored value plus 1 (1 and a new
\* counter document when there is none), which is the previously returned
\* value plus 1 plus the number of calls since that raised after their
\* increment was applied; the counter is kept.
SequencePostIncrement ==
    [][/\ \A r \in Requests :
            Allocated(r)
            => /\ BottleIdSequence \in DOMAIN counters_collection'
               /\ counters_collection'[BottleIdSequence] = new_id'[r]
               /\ new_id'[r] =
                    IF BottleIdSequence \in DOMAIN counters_collection
                    THEN counters_collection[BottleIdSequence] + 1
                    ELSE 1
               /\ new_id'[r] = seqLog.last + seqLog.lost + 1
       /\ CounterKept]_vars

\* C13 witness: two calls returned values that differ by 2, a call between
\* them having raised after its increment was applied.
SequencePostIncrementWitness ==
    \E r1 \in Adds, r2 \in Adds :
        /\ new_id[r1] # 0
        /\ new_id[r2] = new_id[r1] + 2
        /\ \A q \in Adds : new_id[q] # new_id[r1] + 1

\* The documents stored before the step are stored after it, unchanged.
DocumentsKept ==
    /\ Len(bottles_collection') >= Len(bottles_collection)
    /\ \A i \in Ids(bottles_collection) : bottles_collection'[i] = bottles_collection[i]

\* C14: a step of a pick request changes at most the picked flag of the
\* document it sampled (by _id), to true, and nothing else in the store; a step
\* of a creation request only advances the counter or appends one document
\* and leaves the stored documents as they are; a count request and the
\* arrival of a request change nothing in the store; no step removes a document.
OperationFrames ==
    [][/\ Len(bottles_collection') >= Len(bottles_collection)
       /\ (pc' = pc) => UNCHANGED <<bottles_collection, counters_collection>>
       /\ \A r \in Requests :
            /\ (pc[r] # pc'[r] /\ pc[r] \in {"idle", "sample", "count"})
               => UNCHANGED <<bottles_collection, counters_collection>>
            /\ (pc[r] = "mark" /\ pc'[r] # "mark")
               => /\ UNCHANGED counters_collection
                  /\ Len(bottles_collection') = Len(bottles_collection)
                  /\ \A i \in Ids(bottles_collection) :
                       \/ bottles_collection'[i] = bottles_collection[i]
                       \/ /\ i = bottle_doc[r]._id
                          /\ bottles_collection'[i] =
                               [bottles_collection[i] EXCEPT !.picked = TRUE]
            /\ (pc[r] = "alloc" /\ pc'[r] # "alloc")
               => /\ UNCHANGED bottles_collection
                  /\ counters_collection' \in
                       {counters_collection, IncSeq(counters_collection, BottleIdSequence)}
                  /\ pc'[r] = "insert"
                     => counters_collection' # counters_collection
            /\ (pc[r] = "insert" /\ pc'[r] # "insert")
               => /\ UNCHANGED counters_collection
                  /\ DocumentsKept
                  /\ Len(bottles_collection') <= Len(bottles_collection) + 1
                  /\ resp'[r].status = HTTP_201_CREATED
                     => Len(bottles_collection') = Len(bottles_collection) + 1]_vars

\* C14 witness: a pick was answered 200 while two documents are stored, the
\* sampled one picked and the other one still unpicked.
OperationFramesWitness ==
    \E r \in Picks :
        /\ Answered(r, HTTP_200_OK)
        /\ Len(bottles_collection) = 2
        /\ bottles_collection[bottle_doc[r]._id].picked
        /\ \E i \in Ids(bottles_collection) : ~bottles_collection[i].picked

CounterValue ==
    IF BottleIdSequence \in DOMAIN counters_collection
    THEN counters_collection[BottleIdSequence]
    ELSE 0

\* C17: every stored bottle_id lies between 1 and the value of the bottle_id
\* counter, so there are never more documents than the counter value; and an
\* id that is allocated but whose document is not inserted is never the
\* bottle_id of a document a pick sampled or returned.
CounterDominatesIds ==
    /\ \A i \in Ids(bottles_collection) :
           /\ bottles_collection[i].bottle_id >= 1
           /\ bottles_collection[i].bottle_id <= CounterValue
    /\ Len(bottles_collection) <= CounterValue
    /\ \A r \in Adds, p \in Picks :
           (new_id[r] # 0 /\ r \notin Inserters /\ bottle_doc[p] # None)
           => /\ bottle_doc[p].doc.bottle_id # new_id[r]
              /\ Answered(p, HTTP_200_OK) => resp[p].body.bottle_id # new_id[r]

\* C17 witness: a pick was answered 200 while a creation request holds an
\* allocated id whose document is not inserted yet.
CounterDominatesIdsWitness ==
    \E r \in Adds, p \in Picks :
        /\ pc[r] = "insert"
        /\ Answered(p, HTTP_200_OK)
        /\ Len(bottles_collection) < CounterValue

\* C18: a pick answered 200 carries a document whose picked flag in the store
\* is true from then on; and every document whose picked flag is true was
\* sampled by some pick request (a creation never stores picked = true).
DeliveredImpliesMarked ==
    /\ [](\A p \in Picks :
             Answered(p, HTTP_200_OK)
             => /\ bottle_doc[p]._id \in Ids(bottles_collection)
                /\ bottles_collection[bottle_doc[p]._id].picked
                /\ resp[p].body.bottle_id
                       = bottles_collection[bottle_doc[p]._id].bottle_id)
    /\ [](\A i \in Ids(bottles_collection) :
             bottles_collection[i].picked
             => \E p \in Picks : bottle_doc[p] # None /\ bottle_doc[p]._id = i)
    /\ [][\A i \in Ids(bottles_collection') \ Ids(bottles_collection) :
              ~bottles_collection'[i].picked]_vars

\* C18 witness: a pick was answered 200, and another stored document is
\* unpicked.
DeliveredImpliesMarkedWitness ==
    \E p \in Picks :
        /\ Answered(p, HTTP_200_OK)
        /\ bottles_collection[bottle_doc[p]._id].picked
        /\ \E i \in Ids(bottles_collection) : ~bottles_collection[i].picked

\* The number of 200 answers the requester of session r has received.
Successes(r) ==
    tally[r].ok + (IF Answered(r, HTTP_200_OK) THEN 1 ELSE 0)

\* C19: over a fixed set of documents, without creations or store failures, a
\* requester sending picks one after the other never receives more 200
\* answers than there were documents eligible for it when it sent its first
\* request, and it eventually receives a 404, whatever the other requesters
\* do.
Exhaustion ==
    /\ [](\A r \in Picks : Successes(r) <= tally[r].first)
    /\ (kind[1] = "pick") ~> Answered(1, HTTP_404_NOT_FOUND)

\* C19 witness: requester 1 received a 200 and then a 404, with fewer 200
\* answers than documents eligible at its first request because another
\* requester received one of them.
ExhaustionWitness ==
    /\ kind[1] = "pick"
    /\ Answered(1, HTTP_404_NOT_FOUND)
    /\ tally[1].ok >= 1
    /\ tally[1].ok < tally[1].first
    /\ \E q \in Picks \ {1} : Successes(q) >= 1

====
